---- MODULE Spec2Model ----
(***************************************************************************)
(* Conversation session controller of the chat page (routes/+page.svelte), *)
(* the text input that feeds it (routes/Input.svelte) and the mock data    *)
(* module (lib/data/conversations.ts).                                     *)
(*                                                                         *)
(* Strings are TLA+ strings; Len, SubSeq and \o are the JavaScript length, *)
(* substring and + on them.  A ChatMessage is modelled by its from,        *)
(* content and status fields; its id and timestamp are opaque values that  *)
(* no handler reads, and so is the timestamp of a Conversation, which is   *)
(* written on every update and read by the sidebar's formatting only.      *)
(* Date.now() is the variable now: the last reading of the wall clock in   *)
(* milliseconds.  The timers of setTimeout run on their own clock, so a    *)
(* suspended handleSendMessage resumes at any later step.                  *)
(***************************************************************************)
EXTENDS Integers, Sequences, FiniteSets, TLC

(* ------------------------------ bounds --------------------------------- *)
\* number of handleSendMessage calls that pass the guard
MaxSends == 2
\* number of handleCreateNew calls
MaxCreates == 2

(* ------------------------- string primitives --------------------------- *)
\* Date.now() when the data module is loaded
T0 == 1700000000

NULL == "<null>"

DEFAULT_TITLE == "New Chat"

ELLIPSIS == "..."

LAST_MESSAGE_MAX == 60

TITLE_MAX == 30

IsWhiteSpace(c) == c \in {" ", "\n", "\t", "\r"}

RECURSIVE trimStart(_)
trimStart(s) ==
  IF Len(s) > 0 /\ IsWhiteSpace(SubSeq(s, 1, 1))
  THEN trimStart(SubSeq(s, 2, Len(s)))
  ELSE s

RECURSIVE trimEnd(_)
trimEnd(s) ==
  IF Len(s) > 0 /\ IsWhiteSpace(SubSeq(s, Len(s), Len(s)))
  THEN trimEnd(SubSeq(s, 1, Len(s) - 1))
  ELSE s

\* a trim that returns its argument
trimNothing(s) == s

\* String.prototype.trim
trim(s) == trimEnd(trimStart(s))

\* String.prototype.substring(0, n)
substring0(s, n) == SubSeq(s, 1, IF n < Len(s) THEN n ELSE Len(s))

\* String.prototype.includes
includes(s, k) ==
  \E i \in 1..(Len(s) - Len(k) + 1) : SubSeq(s, i, i + Len(k) - 1) = k

UpperToLower ==
  [c \in {"A","B","C","D","E","F","G","H","I","J","K","L","M",
          "N","O","P","Q","R","S","T","U","V","W","X","Y","Z"} |->
     CASE c = "A" -> "a" [] c = "B" -> "b" [] c = "C" -> "c" [] c = "D" -> "d"
       [] c = "E" -> "e" [] c = "F" -> "f" [] c = "G" -> "g" [] c = "H" -> "h"
       [] c = "I" -> "i" [] c = "J" -> "j" [] c = "K" -> "k" [] c = "L" -> "l"
       [] c = "M" -> "m" [] c = "N" -> "n" [] c = "O" -> "o" [] c = "P" -> "p"
       [] c = "Q" -> "q" [] c = "R" -> "r" [] c = "S" -> "s" [] c = "T" -> "t"
       [] c = "U" -> "u" [] c = "V" -> "v" [] c = "W" -> "w" [] c = "X" -> "x"
       [] c = "Y" -> "y" [] c = "Z" -> "z"]

RECURSIVE toLowerCase(_)
\* String.prototype.toLowerCase on the ASCII letters
toLowerCase(s) ==
  IF Len(s) = 0 THEN ""
  ELSE LET c == SubSeq(s, 1, 1)
       IN  (IF c \in DOMAIN UpperToLower THEN UpperToLower[c] ELSE c)
             \o toLowerCase(SubSeq(s, 2, Len(s)))

(* ------------------------------ mock data ------------------------------ *)
mockConversations ==
  << [id |-> "conv-1", title |-> "GitHub Issue Analysis",
      lastMessage |-> "I found 3 open issues related to authentication...", messageCount |-> 4],
     [id |-> "conv-2", title |-> "Repository Statistics",
      lastMessage |-> "The repository has 45 open issues and 12 pull requests.", messageCount |-> 6],
     [id |-> "conv-3", title |-> "Team Velocity Metrics",
      lastMessage |-> "Based on the data, your team closed 23 issues this week.", messageCount |-> 5],
     [id |-> "conv-4", title |-> "Codebase Query",
      lastMessage |-> "The authentication module is located in src/auth/", messageCount |-> 3],
     [id |-> "conv-5", title |-> "Issue Creation Help",
      lastMessage |-> "I can help you create a new issue. What would you like to track?", messageCount |-> 7],
     [id |-> "conv-6", title |-> "Label Management",
      lastMessage |-> "All labels have been updated successfully.", messageCount |-> 4],
     [id |-> "conv-7", title |-> "Pull Request Review",
      lastMessage |-> "The PR #42 has been reviewed and approved.", messageCount |-> 8] >>

mockMessages ==
  ("conv-1" :> <<
       [from |-> "user", status |-> "complete",
        content |-> "Can you analyze the open issues in the repository?"],
       [from |-> "model", status |-> "complete",
        content |-> "I'll analyze the open issues for you. Let me fetch the data..."],
       [from |-> "user", status |-> "complete",
        content |-> "Focus on authentication-related issues"],
       [from |-> "model", status |-> "complete",
        content |-> "I found 3 open issues related to authentication:\n\n1. Issue #42: \"OAuth token refresh failing\"\n2. Issue #58: \"Session timeout too short\"\n3. Issue #71: \"Password reset email not sending\"\n\nWould you like me to get more details on any of these?"] >>) @@
  ("conv-2" :> <<
       [from |-> "user", status |-> "complete",
        content |-> "Show me repository statistics"],
       [from |-> "model", status |-> "complete",
        content |-> "Fetching repository statistics..."],
       [from |-> "model", status |-> "complete",
        content |-> "Here are the current repository statistics:\n\n- Open Issues: 45\n- Closed Issues: 234\n- Open Pull Requests: 12\n- Merged Pull Requests: 189\n- Contributors: 28\n- Stars: 1,234"],
       [from |-> "user", status |-> "complete",
        content |-> "What about the last 30 days?"],
       [from |-> "model", status |-> "complete",
        content |-> "In the last 30 days:\n\n- 12 new issues opened\n- 18 issues closed\n- 5 new pull requests\n- 8 pull requests merged"],
       [from |-> "model", status |-> "complete",
        content |-> "The repository has 45 open issues and 12 pull requests."] >>) @@
  ("conv-3" :> <<
       [from |-> "user", status |-> "complete",
        content |-> "What's our team velocity this week?"],
       [from |-> "model", status |-> "complete",
        content |-> "Calculating team velocity metrics..."],
       [from |-> "model", status |-> "complete",
        content |-> "Based on the data, your team closed 23 issues this week."],
       [from |-> "user", status |-> "complete",
        content |-> "Compare to last week"],
       [from |-> "model", status |-> "complete",
        content |-> "Last week your team closed 19 issues, so this week shows a 21% increase in velocity."] >>) @@
  ("conv-4" :> <<
       [from |-> "user", status |-> "complete",
        content |-> "Where is the authentication code located?"],
       [from |-> "model", status |-> "complete",
        content |-> "Searching the codebase for authentication-related files..."],
       [from |-> "model", status |-> "complete",
        content |-> "The authentication module is located in src/auth/"] >>) @@
  ("conv-5" :> <<
       [from |-> "user", status |-> "complete",
        content |-> "I need to create a new issue"],
       [from |-> "model", status |-> "complete",
        content |-> "I can help you create a new issue. What would you like to track?"],
       [from |-> "user", status |-> "complete",
        content |-> "A bug in the login flow"],
       [from |-> "model", status |-> "complete",
        content |-> "I can create an issue for the login flow bug. Would you like me to:\n\n1. Create it now with a default title and description?\n2. Let you provide more details first?\n\nWhat would you prefer?"],
       [from |-> "user", status |-> "complete",
        content |-> "Let me provide more details"],
       [from |-> "model", status |-> "complete",
        content |-> "Please provide:\n- Title for the issue\n- Description of the bug\n- Steps to reproduce (if known)\n- Expected vs actual behavior"],
       [from |-> "user", status |-> "complete",
        content |-> "Title: Login fails with OAuth providers\nDescription: Users cannot log in using Google or GitHub OAuth"] >>) @@
  ("conv-6" :> <<
       [from |-> "user", status |-> "complete",
        content |-> "Update all bug labels to use \"bug\" instead of \"Bug\""],
       [from |-> "model", status |-> "complete",
        content |-> "I'll update the label naming convention for you."],
       [from |-> "model", status |-> "complete",
        content |-> "All labels have been updated successfully."],
       [from |-> "user", status |-> "complete",
        content |-> "Thanks!"] >>) @@
  ("conv-7" :> <<
       [from |-> "user", status |-> "complete",
        content |-> "Review pull request #42"],
       [from |-> "model", status |-> "complete",
        content |-> "Analyzing pull request #42..."],
       [from |-> "model", status |-> "complete",
        content |-> "PR #42 Summary:\n- Title: \"Add dark mode support\"\n- Author: @johndoe\n- Files changed: 12\n- Additions: +234 lines\n- Deletions: -45 lines\n- Status: Open"],
       [from |-> "user", status |-> "complete",
        content |-> "What are the main changes?"],
       [from |-> "model", status |-> "complete",
        content |-> "The main changes include:\n1. Added dark mode theme configuration\n2. Updated CSS variables for color schemes\n3. Added theme toggle component\n4. Updated all components to support dark mode"],
       [from |-> "user", status |-> "complete",
        content |-> "Approve it"],
       [from |-> "model", status |-> "complete",
        content |-> "The PR #42 has been reviewed and approved."],
       [from |-> "user", status |-> "complete",
        content |-> "Great!"] >>)

(* ----------------------------- helpers --------------------------------- *)
\* generateConversationId: `conv-${Date.now()}`
generateConversationId(time) == "conv-" \o ToString(time)

\* s.length > n ? s.substring(0, n) + '...' : s
truncate(s, n) == IF Len(s) > n THEN substring0(s, n) \o ELLIPSIS ELSE s

ISSUE_REPLY ==
  "I can help you with issues. Would you like me to:\n\n1. List open issues\n2. Search for specific issues\n3. Create a new issue\n4. Get details about a particular issue\n\nWhat would you like to do?"

STAT_REPLY ==
  "I can provide repository statistics and team velocity metrics. Let me fetch the latest data for you..."

PR_REPLY ==
  "I can help you with pull requests. Would you like me to:\n\n1. List open pull requests\n2. Review a specific PR\n3. Get PR details\n\nWhat would you like to do?"

LABEL_REPLY ==
  "I can help you manage labels. Would you like to:\n\n1. List all labels\n2. Create a new label\n3. Update existing labels\n4. Get labels for a specific issue\n\nWhat would you like to do?"

FallbackReply(userMessage) ==
  "I understand you're asking about \"" \o userMessage
    \o "\". Let me help you with that. Could you provide more details about what you'd like me to do?"

\* a classification that tries the pull request rule before the others
generateMockResponsePrFirst(userMessage) ==
  LET lowerMessage == toLowerCase(userMessage)
  IN  IF includes(lowerMessage, "pull request") \/ includes(lowerMessage, "pr")
      THEN PR_REPLY
      ELSE IF includes(lowerMessage, "issue") \/ includes(lowerMessage, "bug")
      THEN ISSUE_REPLY
      ELSE IF \/ includes(lowerMessage, "stat")
              \/ includes(lowerMessage, "metric")
              \/ includes(lowerMessage, "velocity")
      THEN STAT_REPLY
      ELSE IF includes(lowerMessage, "label")
      THEN LABEL_REPLY
      ELSE FallbackReply(userMessage)

generateMockResponse(userMessage) ==
  LET lowerMessage == toLowerCase(userMessage)
  IN  IF includes(lowerMessage, "issue") \/ includes(lowerMessage, "bug")
      THEN ISSUE_REPLY
      ELSE IF \/ includes(lowerMessage, "stat")
              \/ includes(lowerMessage, "metric")
              \/ includes(lowerMessage, "velocity")
      THEN STAT_REPLY
      ELSE IF includes(lowerMessage, "pull request") \/ includes(lowerMessage, "pr")
      THEN PR_REPLY
      ELSE IF includes(lowerMessage, "label")
      THEN LABEL_REPLY
      ELSE FallbackReply(userMessage)

(* ------------------------------ inputs --------------------------------- *)
\* the texts typed into the input element
Texts ==
  { "  \n ",
    " Tell me about open issues\n",
    "Which pull requests were merged since the start of this quarter and by whom?" }

\* the texts typed to exercise generateMockResponse: keywords of several
\* rules at once, upper case, a keyword inside another word, no keyword
ClassifyTexts ==
  { "bug in my pull request",
    "ISSUE statistics",
    "Team Velocity for PR labels",
    "What is the status?",
    "Label this PR",
    "Express delivery",
    "Add a LABEL",
    "Hello There" }

\* the seeded sidebar items the user clicks (every created one is clicked too)
SeedsClicked == {"conv-1"}

\* the strings the handlers are called with: the texts and what trim makes
\* of them
Contents == LET typed == Texts \cup ClassifyTexts
            IN  typed \cup {trim(t) : t \in typed}

\* trim and generateMockResponse tabulated over Contents
trimOf == [s \in Contents |-> trim(s)]

responseOf == [s \in Contents |-> generateMockResponse(s)]

(* ------------------------- handlers' parts ----------------------------- *)
\* the ChatMessage handleSendMessage builds for the user's text
userMessage(content) ==
  [from |-> "user", status |-> "complete", content |-> trimOf[content]]

\* a reply built with the sender of the user's message
modelResponseFromUser(content) ==
  [from |-> "user", status |-> "complete", content |-> responseOf[content]]

\* the ChatMessage the continuation builds for the reply
modelResponse(content) ==
  [from |-> "model", status |-> "complete", content |-> responseOf[content]]

\* mockMessages[conversationId] || []
loadConversationMessages(conversationId) ==
  IF conversationId \in DOMAIN mockMessages THEN mockMessages[conversationId] ELSE << >>

\* an update that forgets to count the message
updatedConversationNoCount(conv, lastMessage, chat) ==
  [conv EXCEPT
     !.lastMessage  = truncate(lastMessage, LAST_MESSAGE_MAX),
     !.title        = IF conv.title = DEFAULT_TITLE /\ Len(chat) = 1
                      THEN truncate(lastMessage, TITLE_MAX)
                      ELSE conv.title]

\* an update that retitles on every first message of the thread on screen
updatedConversationAnyTitle(conv, lastMessage, chat) ==
  [conv EXCEPT
     !.lastMessage  = truncate(lastMessage, LAST_MESSAGE_MAX),
     !.messageCount = conv.messageCount + 1,
     !.title        = IF Len(chat) = 1
                      THEN truncate(lastMessage, TITLE_MAX)
                      ELSE conv.title]

\* an update that keeps the whole text as lastMessage
updatedConversationNoTruncate(conv, lastMessage, chat) ==
  [conv EXCEPT
     !.lastMessage  = lastMessage,
     !.messageCount = conv.messageCount + 1,
     !.title        = IF conv.title = DEFAULT_TITLE /\ Len(chat) = 1
                      THEN truncate(lastMessage, TITLE_MAX)
                      ELSE conv.title]

\* an update that counts every message twice
updatedConversationCountTwice(conv, lastMessage, chat) ==
  [conv EXCEPT
     !.lastMessage  = truncate(lastMessage, LAST_MESSAGE_MAX),
     !.messageCount = conv.messageCount + 2,
     !.title        = IF conv.title = DEFAULT_TITLE /\ Len(chat) = 1
                      THEN truncate(lastMessage, TITLE_MAX)
                      ELSE conv.title]

\* the record updateConversationMetadata returns for a conversation it matches
updatedConversation(conv, lastMessage, chat) ==
  [conv EXCEPT
     !.lastMessage  = truncate(lastMessage, LAST_MESSAGE_MAX),
     !.messageCount = conv.messageCount + 1,
     !.title        = IF conv.title = DEFAULT_TITLE /\ Len(chat) = 1
                      THEN truncate(lastMessage, TITLE_MAX)
                      ELSE conv.title]

\* conversations.map(...) of updateConversationMetadata; chat is chatContent
\* as the call finds it
updateConversationMetadata(convs, conversationId, lastMessage, chat) ==
  [i \in 1..Len(convs) |->
     IF convs[i].id = conversationId
     THEN updatedConversation(convs[i], lastMessage, chat)
     ELSE convs[i]]

\* the id the continuation of call p hands to updateConversationMetadata:
\* currentConversationId, read when the timer has fired
continuationTarget(p, current) == current

\* a switch that leaves isProcessing as it was
processingKept(processing) == processing

\* isProcessing after a conversation was selected or created
processingAfterSwitch(processing) == FALSE

(* ------------------------------- state --------------------------------- *)
VARIABLES
  conversations,          \* Conversation[], newest first
  currentConversationId,  \* string | null
  chatContent,            \* ChatMessage[] on screen
  isProcessing,           \* boolean
  pending,                \* handleSendMessage calls suspended at the await
  now,                    \* the last reading of Date.now()
  nCalls,                 \* history: handleSendMessage calls that passed the guard
  appended,               \* history: per conversation (same index as
                          \* conversations), messages appended to chatContent
                          \* while its id was the selected one
  lastOp                  \* history: the handler that made the last step,
                          \* with the text in the input element if it is
                          \* handleSend, the id clicked if it is
                          \* handleSelectConversation

vars == << conversations, currentConversationId, chatContent, isProcessing,
           pending, now, nCalls, appended, lastOp >>

Op(name, text) == [op |-> name, text |-> text]

\* ids of the conversations a list holds
ConversationIds(convs) == {convs[i].id : i \in 1..Len(convs)}

\* number of conversations made by handleCreateNew
NumCreated == Len(conversations) - Len(mockConversations)

\* the sidebar items the user clicks
Clickable ==
  {conversations[i].id : i \in 1..NumCreated} \cup
  (SeedsClicked \cap ConversationIds(conversations))

\* appended after a message was appended while `current` was selected
Credit(convs, app, current) ==
  [i \in 1..Len(app) |-> IF convs[i].id = current THEN app[i] + 1 ELSE app[i]]

(* ------------------------------ initial -------------------------------- *)
\* the state once the component is mounted: the $effect has selected the
\* first conversation
Init ==
  /\ conversations = mockConversations
  /\ currentConversationId =
       IF Len(mockConversations) > 0 THEN mockConversations[1].id ELSE NULL
  /\ chatContent =
       IF Len(mockConversations) > 0
       THEN loadConversationMessages(mockConversations[1].id)
       ELSE << >>
  /\ isProcessing = FALSE
  /\ pending = {}
  /\ now = T0
  /\ nCalls = 0
  /\ appended = [i \in 1..Len(mockConversations) |-> 0]
  /\ lastOp = Op("init", "")

(* ------------------------------ handlers ------------------------------- *)
handleSelectConversation(id) ==
  /\ currentConversationId' = id
  /\ chatContent' = loadConversationMessages(id)
  /\ isProcessing' = processingAfterSwitch(isProcessing)
  /\ lastOp' = Op("select", id)
  /\ UNCHANGED << conversations, pending, now, nCalls, appended >>

\* a create that puts the new conversation at the end of the list
handleCreateNewAppend(elapsed) ==
  /\ NumCreated < MaxCreates
  /\ now' = now + elapsed
  /\ LET newId == generateConversationId(now')
         newConversation == [id |-> newId, title |-> DEFAULT_TITLE,
                             lastMessage |-> "", messageCount |-> 0]
     IN  /\ conversations' = conversations \o << newConversation >>
         /\ currentConversationId' = newId
  /\ appended' = appended \o << 0 >>
  /\ chatContent' = << >>
  /\ isProcessing' = processingAfterSwitch(isProcessing)
  /\ lastOp' = Op("create", "")
  /\ UNCHANGED << pending, nCalls >>

\* elapsed: the milliseconds by which Date.now() has moved on since it was
\* last read (the first click comes after the millisecond of the page load)
handleCreateNew(elapsed) ==
  /\ NumCreated < MaxCreates
  /\ now' = now + elapsed
  /\ LET newId == generateConversationId(now')
         newConversation == [id |-> newId, title |-> DEFAULT_TITLE,
                             lastMessage |-> "", messageCount |-> 0]
     IN  /\ conversations' = << newConversation >> \o conversations
         /\ currentConversationId' = newId
  /\ appended' = << 0 >> \o appended
  /\ chatContent' = << >>
  /\ isProcessing' = processingAfterSwitch(isProcessing)
  /\ lastOp' = Op("create", "")
  /\ UNCHANGED << pending, nCalls >>

\* handleSendMessage up to its await
handleSendMessage(content) ==
  IF currentConversationId \in {NULL, ""} \/ trimOf[content] = ""
  THEN UNCHANGED << conversations, currentConversationId, chatContent,
                    isProcessing, pending, now, nCalls, appended >>
  ELSE LET chat == Append(chatContent, userMessage(content))
       IN  /\ chatContent' = chat
           /\ isProcessing' = TRUE
           /\ conversations' =
                updateConversationMetadata(conversations, currentConversationId,
                                           trimOf[content], chat)
           /\ pending' = pending \cup
                {[call |-> nCalls + 1, content |-> content,
                  selectedAtCall |-> currentConversationId]}
           /\ nCalls' = nCalls + 1
           /\ appended' = Credit(conversations, appended, currentConversationId)
           /\ UNCHANGED << currentConversationId, now >>

\* a handleSend that does not look at isDisabled
handleSendAlways(text) ==
  /\ nCalls < MaxSends
  /\ lastOp' = Op("submit", text)
  /\ IF trimOf[text] = ""
     THEN UNCHANGED << conversations, currentConversationId, chatContent,
                       isProcessing, pending, now, nCalls, appended >>
     ELSE handleSendMessage(trimOf[text])

\* Input.svelte handleSend with innerText = text (the send button, or Enter
\* without Shift through handleKeyDown)
handleSend(text) ==
  /\ nCalls < MaxSends
  /\ lastOp' = Op("submit", text)
  /\ IF isProcessing \/ trimOf[text] = ""
     THEN UNCHANGED << conversations, currentConversationId, chatContent,
                       isProcessing, pending, now, nCalls, appended >>
     ELSE handleSendMessage(trimOf[text])

\* a continuation that is dropped once the selection was switched
ResumeUnlessSwitched(p) ==
  /\ isProcessing
  /\ LET reply == modelResponse(p.content)
         chat  == Append(chatContent, reply)
     IN  /\ chatContent' = chat
         /\ conversations' =
              updateConversationMetadata(
                conversations, continuationTarget(p, currentConversationId),
                reply.content, chat)
  /\ appended' = Credit(conversations, appended, currentConversationId)
  /\ isProcessing' = FALSE
  /\ pending' = pending \ {p}
  /\ lastOp' = Op("resume", "")
  /\ UNCHANGED << currentConversationId, now, nCalls >>

\* a continuation that forgets to clear isProcessing
ResumeWithoutClear(p) ==
  /\ LET reply == modelResponse(p.content)
         chat  == Append(chatContent, reply)
     IN  /\ chatContent' = chat
         /\ conversations' =
              updateConversationMetadata(
                conversations, continuationTarget(p, currentConversationId),
                reply.content, chat)
  /\ appended' = Credit(conversations, appended, currentConversationId)
  /\ isProcessing' = isProcessing
  /\ pending' = pending \ {p}
  /\ lastOp' = Op("resume", "")
  /\ UNCHANGED << currentConversationId, now, nCalls >>

\* a continuation that answers the text of the latest pending send
ResumeLatestText(p) ==
  /\ LET latest == CHOOSE q \in pending : \A r \in pending : r.call <= q.call
         reply  == modelResponse(latest.content)
         chat   == Append(chatContent, reply)
     IN  /\ chatContent' = chat
         /\ conversations' =
              updateConversationMetadata(
                conversations, continuationTarget(p, currentConversationId),
                reply.content, chat)
  /\ appended' = Credit(conversations, appended, currentConversationId)
  /\ isProcessing' = FALSE
  /\ pending' = pending \ {p}
  /\ lastOp' = Op("resume", "")
  /\ UNCHANGED << currentConversationId, now, nCalls >>

\* handleSendMessage after its await: the timer of call p has fired
Resume(p) ==
  /\ LET reply == modelResponse(p.content)
         chat  == Append(chatContent, reply)
     IN  /\ chatContent' = chat
         /\ conversations' =
              updateConversationMetadata(
                conversations, continuationTarget(p, currentConversationId),
                reply.content, chat)
  /\ appended' = Credit(conversations, appended, currentConversationId)
  /\ isProcessing' = FALSE
  /\ pending' = pending \ {p}
  /\ lastOp' = Op("resume", "")
  /\ UNCHANGED << currentConversationId, now, nCalls >>

Next ==
  \/ \E id \in Clickable : handleSelectConversation(id)
  \/ \E elapsed \in (IF NumCreated = 0 THEN {1} ELSE {0, 1}) :
       handleCreateNew(elapsed)
  \/ \E text \in Texts : handleSend(text)
  \/ \E p \in pending : Resume(p)

Spec == Init /\ [][Next]_vars

\* ids that no conversation of the list carries
UnknownIds == {"", "conv-404"}

\* the page with handleSelectConversation also called with ids that are not
\* in the list (the sidebar itself only passes ids of listed conversations)
NextUnknownId ==
  \/ \E id \in Clickable \cup UnknownIds : handleSelectConversation(id)
  \/ \E elapsed \in (IF NumCreated = 0 THEN {1} ELSE {0, 1}) :
       handleCreateNew(elapsed)
  \/ \E text \in Texts : handleSend(text)
  \/ \E p \in pending : Resume(p)

SpecUnknownId == Init /\ [][NextUnknownId]_vars

\* the timer of every call of handleSendMessage fires: setTimeout is never
\* cleared, so the continuation of each call is taken once it stays possible
SpecLive ==
  Spec /\ \A c \in 1..MaxSends :
            WF_vars(\E p \in pending : p.call = c /\ Resume(p))

\* the page used only to send the texts of ClassifyTexts, one after the other
NextClassify ==
  \/ \E text \in ClassifyTexts : handleSend(text)
  \/ \E p \in pending : Resume(p)

SpecClassify == Init /\ [][NextClassify]_vars

(* ------------------------- vocabulary of the claims -------------------- *)
\* s consists of white space only
Blank(s) == \A i \in 1..Len(s) : IsWhiteSpace(SubSeq(s, i, i))

\* c is t without its leading and trailing white space
IsTrimOf(c, t) ==
  \E i \in 1..Len(t) : \E j \in i..Len(t) :
     /\ c = SubSeq(t, i, j)
     /\ ~IsWhiteSpace(SubSeq(t, i, i))
     /\ ~IsWhiteSpace(SubSeq(t, j, j))
     /\ Blank(SubSeq(t, 1, i - 1))
     /\ Blank(SubSeq(t, j + 1, Len(t)))

\* the step is a handleSend that reaches handleSendMessage with a text that
\* is not blank while a conversation is selected
EffectiveSend ==
  /\ lastOp'.op = "submit"
  /\ ~isProcessing
  /\ ~Blank(lastOp'.text)
  /\ currentConversationId # NULL

\* the step is the continuation of a suspended handleSendMessage
ResumeStep == lastOp'.op = "resume"

\* number of messages seeded for a conversation id
SeededCount(id) == IF id \in DOMAIN mockMessages THEN Len(mockMessages[id]) ELSE 0

\* the conversation that is k places from the end of the list (the list only
\* grows at the front, so k names the same conversation in every state)
FromEnd(convs, k) == convs[Len(convs) - k]

\* s cut to its first n characters plus the ellipsis marker if it is longer
Cut(s, n) == IF Len(s) <= n THEN s ELSE SubSeq(s, 1, n) \o "..."

(* ------------------------------- claims -------------------------------- *)
\* C1: while a continuation scheduled by handleSendMessage has not fired,
\* isProcessing is true.
C1_PendingImpliesProcessing == pending # {} => isProcessing

\* C2: the metadata update the continuation of a call makes goes to the
\* conversation that was selected when the call was made: that one gets the
\* reply as lastMessage and one more message, and no other conversation
\* changes.
C2_UpdateGoesToConversationOfCall ==
  [][ResumeStep =>
        \A p \in pending \ pending' :
          \A i \in 1..Len(conversations) :
            IF conversations[i].id = p.selectedAtCall
            THEN /\ conversations'[i].messageCount = conversations[i].messageCount + 1
                 /\ conversations'[i].lastMessage =
                      truncate(responseOf[p.content], LAST_MESSAGE_MAX)
            ELSE conversations'[i] = conversations[i]]_vars

\* C3: a reply is appended only while isProcessing is true and after the
\* user message it answers, which is then in chatContent; an append leaves
\* the messages already in chatContent where they are.
C3_UserThenAwaitThenReply ==
  [][ResumeStep =>
        /\ isProcessing
        /\ \A p \in pending \ pending' :
             \E i \in 1..Len(chatContent) : chatContent[i] = userMessage(p.content)
        /\ Len(chatContent') = Len(chatContent) + 1
        /\ SubSeq(chatContent', 1, Len(chatContent)) = chatContent]_vars

\* C4: a handleSend with a text that is not blank, while a conversation is
\* selected, appends exactly one user message with the trimmed text to the end
\* of chatContent in the same step and suspends exactly one continuation; a
\* continuation, when it fires, appends exactly one model message to the end
\* of chatContent and is gone; continuations come and go in no other step, so
\* each such send causes one model append, after its user append.
C4_SendAppendsUserThenReply ==
  [][/\ EffectiveSend =>
          /\ Len(chatContent') = Len(chatContent) + 1
          /\ SubSeq(chatContent', 1, Len(chatContent)) = chatContent
          /\ chatContent'[Len(chatContent')].from = "user"
          /\ IsTrimOf(chatContent'[Len(chatContent')].content, lastOp'.text)
          /\ pending \subseteq pending'
          /\ Cardinality(pending' \ pending) = 1
     /\ ResumeStep =>
          /\ Len(chatContent') = Len(chatContent) + 1
          /\ SubSeq(chatContent', 1, Len(chatContent)) = chatContent
          /\ chatContent'[Len(chatContent')].from = "model"
          /\ pending' \subseteq pending
          /\ Cardinality(pending \ pending') = 1
     /\ pending' # pending => EffectiveSend \/ ResumeStep]_vars

\* C4 witness: a continuation has fired right after its send: the thread ends
\* with the trimmed text and the reply to it.
C4_Witness ==
  /\ lastOp.op = "resume"
  /\ Len(chatContent) >= 2
  /\ chatContent[Len(chatContent) - 1] =
       [from |-> "user", status |-> "complete", content |-> "Tell me about open issues"]
  /\ chatContent[Len(chatContent)] =
       [from |-> "model", status |-> "complete", content |-> ISSUE_REPLY]

\* C5: a handleSend with a blank text, or with no conversation selected,
\* changes neither chatContent, isProcessing, the selection nor any
\* conversation, and suspends no continuation.
C5_BlankSendIsNoOp ==
  [][(lastOp'.op = "submit" /\ (Blank(lastOp'.text) \/ currentConversationId = NULL)) =>
        UNCHANGED << chatContent, isProcessing, currentConversationId,
                     conversations, pending >>]_vars

\* C5 witness: a blank text was submitted while the input was enabled.
C5_Witness ==
  /\ lastOp = Op("submit", "  \n ")
  /\ ~isProcessing
  /\ currentConversationId # NULL

\* C6: the lastMessage of every conversation, the seeded ones included, has
\* at most 60 characters plus the 3 of the ellipsis marker.
C6_LastMessageAtMost63 ==
  \A i \in 1..Len(conversations) :
     Len(conversations[i].lastMessage) <= LAST_MESSAGE_MAX + Len(ELLIPSIS)

\* C7: the messageCount of every conversation is the number of messages
\* seeded for it plus the number of messages appended to chatContent while it
\* was the selected one.
C7_MessageCountIsSeededPlusAppended ==
  \A i \in 1..Len(conversations) :
     conversations[i].messageCount = SeededCount(conversations[i].id) + appended[i]

\* C7 witness: a reply has just been appended in one conversation and
\* another conversation has had a message appended too.
C7_Witness ==
  /\ lastOp.op = "resume"
  /\ \E i, j \in 1..Len(conversations) :
        /\ i # j
        /\ conversations[i].id = currentConversationId
        /\ conversations[j].id # currentConversationId
        /\ appended[i] >= 1
        /\ appended[j] >= 1

\* C8: a created conversation is titled "New Chat" as long as no message has
\* been appended for it, and a title that is no longer "New Chat" never
\* changes again.
C8_TitleChangesOnceAfterFirstMessage ==
  /\ [](\A i \in 1..NumCreated :
          appended[i] = 0 => conversations[i].title = DEFAULT_TITLE)
  /\ [][\A k \in 0..(NumCreated - 1) :
          FromEnd(conversations, Len(mockConversations) + k).title # DEFAULT_TITLE =>
            FromEnd(conversations', Len(mockConversations) + k).title =
              FromEnd(conversations, Len(mockConversations) + k).title]_vars

\* C8 witness: a created conversation that has its title from an earlier
\* message is selected again, and a message was sent into its empty thread.
C8_Witness ==
  /\ lastOp.op = "submit"
  /\ Len(chatContent) = 1
  /\ \E i \in 1..NumCreated :
        /\ conversations[i].id = currentConversationId
        /\ appended[i] >= 2
        /\ conversations[i].title # DEFAULT_TITLE
        /\ conversations[i].title # truncate(chatContent[1].content, TITLE_MAX)

\* C9: when the title of a conversation changes from "New Chat", the step is
\* a send in that conversation and the new title is the trimmed text of that
\* send, cut to 30 characters plus the ellipsis marker if it is longer; it is
\* never made from a reply.
C9_TitleFromUserText ==
  [][\A k \in 0..(Len(conversations) - 1) :
        (/\ FromEnd(conversations, k).title = DEFAULT_TITLE
         /\ FromEnd(conversations', k).title # DEFAULT_TITLE) =>
           /\ lastOp'.op = "submit"
           /\ FromEnd(conversations, k).id = currentConversationId
           /\ FromEnd(conversations', k).title =
                truncate(trim(lastOp'.text), TITLE_MAX)]_vars

\* C10: when there is a conversation, currentConversationId is not null and
\* is the id of exactly one conversation of the list.
C10_ExactlyOneSelected ==
  Len(conversations) > 0 =>
    /\ currentConversationId # NULL
    /\ Cardinality({i \in 1..Len(conversations) :
                      conversations[i].id = currentConversationId}) = 1

\* C11: a message appended to chatContent while a conversation was selected
\* is on screen whenever that conversation is selected: the thread on screen
\* holds the messages seeded for the selected conversation and every message
\* appended while it was selected, so it is at least that long.
C11_AppendedMessagesStay ==
  \A i \in 1..Len(conversations) :
     conversations[i].id = currentConversationId =>
       Len(chatContent) >= SeededCount(conversations[i].id) + appended[i]

\* C12: in a created conversation whose thread is empty and that has had no
\* message, a send of a text that is not blank, followed at once by its
\* continuation, ends with chatContent = [user message with the trimmed text,
\* model message with the reply to it], messageCount 2, the title the trimmed
\* text cut to 30, lastMessage the reply cut to 60 and isProcessing false;
\* for "Tell me about open issues" the reply is the menu about issues.
C12_FirstExchangeOfNewConversation ==
  [][(/\ ResumeStep
      /\ lastOp.op = "submit"
      /\ Len(chatContent) = 1
      /\ IsTrimOf(chatContent[1].content, lastOp.text)
      /\ \A p \in pending \ pending' : p.call = nCalls) =>
        LET sent  == chatContent[1].content
            reply == generateMockResponse(sent)
        IN  /\ chatContent' =
                 << [from |-> "user", status |-> "complete", content |-> sent],
                    [from |-> "model", status |-> "complete", content |-> reply] >>
            /\ sent = "Tell me about open issues" => reply = ISSUE_REPLY
            /\ isProcessing' = FALSE
            /\ \A i \in 1..NumCreated :
                 (conversations[i].id = currentConversationId /\ appended[i] = 1) =>
                   /\ conversations'[i].messageCount = 2
                   /\ conversations'[i].title = Cut(sent, 30)
                   /\ conversations'[i].lastMessage = Cut(reply, 60)]_vars

\* C12 witness: the first exchange of a created conversation is complete for
\* the text "Tell me about open issues".
C12_Witness ==
  /\ lastOp.op = "resume"
  /\ ~isProcessing
  /\ chatContent =
       << [from |-> "user", status |-> "complete", content |-> "Tell me about open issues"],
          [from |-> "model", status |-> "complete", content |-> ISSUE_REPLY] >>
  /\ \E i \in 1..NumCreated :
        /\ conversations[i].id = currentConversationId
        /\ conversations[i].messageCount = 2
        /\ conversations[i].title = "Tell me about open issues"
        /\ conversations[i].lastMessage =
             "I can help you with issues. Would you like me to:\n\n1. List o..."

\* C13: handleCreateNew can be called in every state (here: as long as fewer
\* than MaxCreates conversations were created) and its step puts one new
\* conversation in front of the previous list, which is otherwise unchanged;
\* the new conversation has title "New Chat", an empty lastMessage and
\* messageCount 0, it is the selected one, chatContent is empty and
\* isProcessing is false.
C13_CreateEffect ==
  [][/\ NumCreated < MaxCreates => ENABLED (\E elapsed \in {0, 1} : handleCreateNew(elapsed))
     /\ lastOp'.op = "create" =>
          /\ Len(conversations') = Len(conversations) + 1
          /\ SubSeq(conversations', 2, Len(conversations')) = conversations
          /\ conversations'[1].title = "New Chat"
          /\ conversations'[1].lastMessage = ""
          /\ conversations'[1].messageCount = 0
          /\ currentConversationId' = conversations'[1].id
          /\ currentConversationId' # NULL
          /\ chatContent' = << >>
          /\ isProcessing' = FALSE]_vars

\* C13 witness: a second conversation was just created while a continuation
\* is pending and the conversation created before it had received a message.
C13_Witness ==
  /\ lastOp.op = "create"
  /\ NumCreated = 2
  /\ pending # {}
  /\ conversations[2].messageCount = 1
  /\ conversations[1].messageCount = 0
  /\ chatContent = << >>

\* the reply each text of ClassifyTexts is to get: that of the first rule, in
\* the order issue/bug, stat/metric/velocity, pull request/pr, label, whose
\* keyword occurs in the text without regard to case, else the fallback
ExpectedReply(text) ==
  CASE text = "bug in my pull request"      -> ISSUE_REPLY
    [] text = "ISSUE statistics"            -> ISSUE_REPLY
    [] text = "Team Velocity for PR labels" -> STAT_REPLY
    [] text = "What is the status?"         -> STAT_REPLY
    [] text = "Label this PR"               -> PR_REPLY
    [] text = "Express delivery"            -> PR_REPLY
    [] text = "Add a LABEL"                 -> LABEL_REPLY
    [] text = "Hello There"                 ->
         "I understand you're asking about \"Hello There\". Let me help you with that. Could you provide more details about what you'd like me to do?"

\* C14: the reply appended for a text is the reply of the first rule, in the
\* fixed order (1) issue/bug, (2) stat/metric/velocity, (3) pull request/pr,
\* (4) label, (5) fallback echoing the text, that matches the lower-cased
\* text, and it is the same every time the text is sent.
C14_FirstMatchingRuleWins ==
  [][ResumeStep =>
       \A p \in pending \ pending' :
          /\ p.content \in ClassifyTexts
          /\ chatContent'[Len(chatContent')].from = "model"
          /\ chatContent'[Len(chatContent')].content = ExpectedReply(p.content)]_vars

\* C14 witness: "bug in my pull request" was answered twice, both times with
\* the reply about issues.
C14_Witness ==
  /\ lastOp.op = "resume"
  /\ Len(chatContent) = SeededCount("conv-1") + 4
  /\ LET n == Len(chatContent)
     IN  /\ chatContent[n - 3].content = "bug in my pull request"
         /\ chatContent[n - 2].content = ISSUE_REPLY
         /\ chatContent[n - 1].content = "bug in my pull request"
         /\ chatContent[n].content = ISSUE_REPLY


\* C15: at most one continuation of handleSendMessage is pending at a time.
C15_AtMostOnePending == Cardinality(pending) <= 1

\* C17: the ids of the conversations in the list are pairwise distinct.
C17_IdsPairwiseDistinct ==
  \A i, j \in 1..Len(conversations) :
     conversations[i].id = conversations[j].id => i = j


\* C16: every handleSendMessage call that took effect is eventually continued,
\* whatever is clicked in the meantime, and a continuation leaves the pending
\* ones only by firing, which appends its model message to chatContent.
C16_EveryContinuationFires ==
  /\ \A c \in 1..MaxSends :
        (\E p \in pending : p.call = c) ~> ~(\E p \in pending : p.call = c)
  /\ [][\A p \in pending \ pending' :
           /\ ResumeStep
           /\ Len(chatContent') = Len(chatContent) + 1
           /\ chatContent'[Len(chatContent')].from = "model"
           /\ chatContent'[Len(chatContent')].content = generateMockResponse(p.content)]_vars

\* C16 witness: a continuation has fired after a new conversation was created
\* while it was pending, so the thread on screen holds its model message only.
C16_Witness ==
  /\ lastOp.op = "resume"
  /\ pending = {}
  /\ NumCreated >= 1
  /\ Len(chatContent) = 1
  /\ chatContent[1].from = "model"


\* C18: handleSelectConversation(id) for the id of a conversation of the list
\* makes id the selected one, chatContent the thread seeded for id (empty if
\* there is none), isProcessing false, and leaves the list of conversations
\* as it was.
C18_SelectEffect ==
  [][lastOp'.op = "select" =>
       LET id == lastOp'.text
       IN  /\ id \in ConversationIds(conversations)
           /\ currentConversationId' = id
           /\ chatContent' = (IF id \in DOMAIN mockMessages
                              THEN mockMessages[id] ELSE << >>)
           /\ id = "conv-1" => Len(chatContent') = 4
           /\ (\E i \in 1..NumCreated : conversations[i].id = id) => chatContent' = << >>
           /\ isProcessing' = FALSE
           /\ conversations' = conversations]_vars

\* C18 witness: conv-1 was selected while a continuation is pending, after it
\* had received messages and a conversation had been created.
C18_Witness ==
  /\ lastOp = [op |-> "select", text |-> "conv-1"]
  /\ currentConversationId = "conv-1"
  /\ pending # {}
  /\ NumCreated >= 1
  /\ chatContent = mockMessages["conv-1"]
  /\ \E i \in 1..Len(conversations) :
        conversations[i].id = "conv-1" /\ conversations[i].messageCount > 4


\* C19: the part of an effective send before its await changes one
\* conversation of the list, the selected one: its messageCount grows by 1
\* and its lastMessage becomes the trimmed text cut to 60 characters plus the
\* ellipsis marker; every other conversation, and the order and the length of
\* the list, are as before.
C19_SendUpdatesSelectedOnly ==
  [][EffectiveSend =>
       /\ Len(conversations') = Len(conversations)
       /\ \E i \in 1..Len(conversations) :
             /\ conversations[i].id = currentConversationId
             /\ conversations'[i].id = conversations[i].id
             /\ conversations'[i].messageCount = conversations[i].messageCount + 1
             /\ \E m \in {chatContent'[Len(chatContent')]} :
                   /\ IsTrimOf(m.content, lastOp'.text)
                   /\ conversations'[i].lastMessage = Cut(m.content, 60)
             /\ \A j \in 1..Len(conversations) :
                   j # i => conversations'[j] = conversations[j]]_vars


\* C20: in every step no conversation leaves the list, the conversations
\* already in it keep their order (at most one new one is put in front), and
\* the messageCount of each never decreases and grows by at most 1, and only
\* in a step that appends a message to chatContent.
C20_ListAndCountsOnlyGrow ==
  [][conversations' # conversations =>
       LET grown == Len(conversations') - Len(conversations)
           Moved(i) == conversations'[i + grown]
       IN  /\ grown \in {0, 1}
           /\ \A i \in 1..Len(conversations) :
                 /\ Moved(i).id = conversations[i].id
                 /\ Moved(i).messageCount - conversations[i].messageCount \in {0, 1}
           /\ (\E i \in 1..Len(conversations) :
                  Moved(i).messageCount # conversations[i].messageCount)
                => /\ Len(chatContent') = Len(chatContent) + 1
                   /\ \A n \in 1..Len(chatContent) : chatContent'[n] = chatContent[n]]_vars

\* C20 witness: two conversations were created after an exchange in conv-1,
\* and an exchange in the newest one has just been completed.
C20_Witness ==
  /\ lastOp.op = "resume"
  /\ NumCreated = 2
  /\ conversations[1].messageCount = 2
  /\ conversations[3].id = "conv-1"
  /\ conversations[3].messageCount = 6


\* C21: a submit in the input element (send button, or Enter without Shift)
\* while isProcessing is true does not call handleSendMessage: chatContent,
\* the conversations, the pending continuations and isProcessing stay as
\* they are.
C21_NoSubmitWhileProcessing ==
  [][(lastOp'.op = "submit" /\ isProcessing) =>
       /\ chatContent' = chatContent
       /\ conversations' = conversations
       /\ pending' = pending
       /\ nCalls' = nCalls
       /\ isProcessing' = isProcessing
       /\ currentConversationId' = currentConversationId]_vars

\* C21 witness: a text that is not blank was submitted while the reply to
\* another text is awaited, and it is not in the thread.
C21_Witness ==
  /\ lastOp.op = "submit"
  /\ ~Blank(lastOp.text)
  /\ isProcessing
  /\ pending # {}
  /\ \A p \in pending : ~IsTrimOf(p.content, lastOp.text)
  /\ \A n \in 1..Len(chatContent) : ~IsTrimOf(chatContent[n].content, lastOp.text)


C23_ProcessingNeverStuck ==
  /\ [](isProcessing => pending # {})
  /\ isProcessing ~> ~isProcessing

\* C23 witness: the second of two sends has been answered and isProcessing is
\* false again, with nothing pending.
C23_Witness ==
  /\ lastOp.op = "resume"
  /\ nCalls = 2
  /\ ~isProcessing
  /\ pending = {}


\* the reply generateMockResponse is to give to the texts of Texts
ReplyTo(content) ==
  CASE content = "Tell me about open issues" -> ISSUE_REPLY
    [] content = "Which pull requests were merged since the start of this quarter and by whom?"
         -> PR_REPLY

\* C24: the model message a continuation appends is generateMockResponse of
\* the text its own handleSendMessage call was given, whatever was sent,
\* selected or created before it fired: a call keeps its text from the send
\* to the continuation, and the reply is computed from that text.
C24_ReplyToOwnText ==
  [][/\ EffectiveSend =>
          /\ pending \subseteq pending'
          /\ \A p \in pending' \ pending :
                p.call = nCalls' /\ IsTrimOf(p.content, lastOp'.text)
     /\ ResumeStep =>
          \A p \in pending \ pending' :
             /\ chatContent'[Len(chatContent')].from = "model"
             /\ chatContent'[Len(chatContent')].content = ReplyTo(p.content)
     /\ (~EffectiveSend /\ ~ResumeStep) => pending' = pending]_vars

\* C24 witness: two sends were pending at once, in conv-1, and the second was
\* answered before the first: the thread ends with the second text, the reply
\* to it and the reply to the first.
C24_Witness ==
  /\ lastOp.op = "resume"
  /\ pending = {}
  /\ currentConversationId = "conv-1"
  /\ Len(chatContent) = SeededCount("conv-1") + 3
  /\ LET n == Len(chatContent)
     IN  /\ chatContent[n - 2].content =
              "Which pull requests were merged since the start of this quarter and by whom?"
         /\ chatContent[n - 1].content = PR_REPLY
         /\ chatContent[n].content = ISSUE_REPLY

====
